---- MODULE Spec2Model ----
(***************************************************************************)
(* Review ingestion and moderation pipeline of the Reviews app.            *)
(*   app/routes/api.proxy.reviews.ts : public GET (list) / POST (create)   *)
(*   app/routes/app._index.tsx       : merchant list / moderation action   *)
(*   prisma migration                : the Review table                     *)
(* Strings are sequences of one-character strings, so that parsing         *)
(* (Number, BigInt, the host regular expression) is computed, not assumed. *)
(***************************************************************************)
EXTENDS Integers, Sequences, FiniteSets, TLC

VARIABLES reviews,    \* the Review table: id -> row
          nextId,     \* next fresh primary key
          clock,      \* CURRENT_TIMESTAMP of the database
          bucket,     \* paths of the objects held by the storage bucket
          nextObj,    \* next fresh crypto.randomUUID()
          supabase,   \* whether the storage client is configured
          request,    \* the last request answered
          response,   \* its response
          calls,      \* repository and storage calls it issued, in order
          before,     \* the Review table as that request found it
          progress,   \* per review: how far the merchant is through
                      \* approve, trash, restore, begun on a pending review
          inflight    \* moderation calls running concurrently: for each, its
                      \* request, its position, the review it loaded, its
                      \* response and the rank of its write among the commits

vars == <<reviews, nextId, clock, bucket, nextObj, supabase, request, response,
          calls, before, progress, inflight>>

----------------------------------------------------------------------------
(* Bounds *)

MaxReviews == 2
MaxClock == 1
MaxObjects == 1

----------------------------------------------------------------------------
(* Strings *)

Digits == <<"0", "1", "2", "3", "4", "5", "6", "7", "8", "9">>

IsDigit(c) == \E i \in 1..10 : Digits[i] = c

DigitVal(c) == (CHOOSE i \in 1..10 : Digits[i] = c) - 1

UpperCase ==
    <<"A", "B", "C", "D", "E", "F", "G", "H", "I", "J", "K", "L", "M",
      "N", "O", "P", "Q", "R", "S", "T", "U", "V", "W", "X", "Y", "Z">>
LowerCase ==
    <<"a", "b", "c", "d", "e", "f", "g", "h", "i", "j", "k", "l", "m",
      "n", "o", "p", "q", "r", "s", "t", "u", "v", "w", "x", "y", "z">>

IsLower(c) == \E i \in 1..Len(LowerCase) : LowerCase[i] = c

LowerChar(c) ==
    IF \E i \in 1..Len(UpperCase) : UpperCase[i] = c
    THEN LowerCase[CHOOSE i \in 1..Len(UpperCase) : UpperCase[i] = c]
    ELSE c

ToLower(s) == [i \in 1..Len(s) |-> LowerChar(s[i])]

RECURSIVE TrimStart(_)
TrimStart(s) == IF s # <<>> /\ Head(s) = " " THEN TrimStart(Tail(s)) ELSE s

RECURSIVE TrimEnd(_)
TrimEnd(s) ==
    IF s # <<>> /\ s[Len(s)] = " " THEN TrimEnd(SubSeq(s, 1, Len(s) - 1)) ELSE s

Trim(s) == TrimEnd(TrimStart(s))

AllDigits(s) == \A i \in 1..Len(s) : IsDigit(s[i])

RECURSIVE DigitsToNat(_)
DigitsToNat(s) ==
    IF s = <<>> THEN 0
    ELSE 10 * DigitsToNat(SubSeq(s, 1, Len(s) - 1)) + DigitVal(s[Len(s)])

RECURSIVE Pow10(_)
Pow10(n) == IF n = 0 THEN 1 ELSE 10 * Pow10(n - 1)

RECURSIVE NatToDigits(_)
NatToDigits(n) ==
    IF n < 10 THEN <<Digits[n + 1]>>
    ELSE NatToDigits(n \div 10) \o <<Digits[(n % 10) + 1]>>

RECURSIVE StripZeros(_)
StripZeros(s) ==
    IF Len(s) > 1 /\ Head(s) = "0" THEN StripZeros(Tail(s)) ELSE s

\* s < t for digit strings without leading zeros
RECURSIVE DigitsLess(_, _)
DigitsLess(s, t) ==
    IF Len(s) # Len(t) THEN Len(s) < Len(t)
    ELSE IF s = <<>> THEN FALSE
    ELSE IF Head(s) # Head(t) THEN DigitVal(Head(s)) < DigitVal(Head(t))
    ELSE DigitsLess(Tail(s), Tail(t))

----------------------------------------------------------------------------
(* JavaScript values of a parsed body, and the conversions applied to them *)

Str(v) == [t |-> "str", s |-> v, n |-> 0]
Num(k) == [t |-> "num", s |-> <<>>, n |-> k]
FileVal(name, size) == [t |-> "file", s |-> name, n |-> size]
Null == [t |-> "null", s |-> <<>>, n |-> 0]
Undefined == [t |-> "undef", s |-> <<>>, n |-> 0]

Nullish(v) == v.t \in {"null", "undef"}

\* a ?? b
Coalesce(a, b) == IF Nullish(a) THEN b ELSE a

\* String(k) for an integer k
NumberToString(k) ==
    IF k < 0 THEN <<"-">> \o NatToDigits(0 - k) ELSE NatToDigits(k)

\* toStr, were a value that is no string read as the empty string
toStrStringsOnly(v) ==
    CASE v.t = "str" -> v.s
      [] OTHER -> <<>>

toStr(v) ==
    CASE Nullish(v) -> <<>>
      [] v.t = "str" -> v.s
      [] v.t = "file" -> <<>>
      [] OTHER -> NumberToString(v.n)

\* (x || null) and (x ? x : null) for a string x
OrNull(x) == IF x = <<>> THEN Null ELSE Str(x)

\* A JavaScript number: not-a-number, an infinity, or the finite num/den
NaN == [nan |-> TRUE, inf |-> FALSE, num |-> 0, den |-> 1]
Infinite(neg) == [nan |-> FALSE, inf |-> TRUE, num |-> IF neg THEN -1 ELSE 1, den |-> 1]
RECURSIVE Gcd(_, _)
Gcd(a, b) == IF b = 0 THEN a ELSE Gcd(b, a % b)

\* the finite number num/den, in lowest terms (5.0 and 5 are the same number)
Finite(num, den) ==
    LET g == Gcd(IF num < 0 THEN 0 - num ELSE num, den)
    IN  [nan |-> FALSE, inf |-> FALSE, num |-> num \div g, den |-> den \div g]

InfinityLiteral == <<"I", "n", "f", "i", "n", "i", "t", "y">>

\* position of the first "." of s, or 0
DotAt(s) ==
    IF \E i \in 1..Len(s) : s[i] = "."
    THEN CHOOSE i \in 1..Len(s) : s[i] = "." /\ \A j \in 1..(i - 1) : s[j] # "."
    ELSE 0

\* StrUnsignedDecimalLiteral: digits, digits. , .digits , digits.digits
UnsignedDecimal(s) ==
    LET d == DotAt(s)
        ip == IF d = 0 THEN s ELSE SubSeq(s, 1, d - 1)
        fp == IF d = 0 THEN <<>> ELSE SubSeq(s, d + 1, Len(s))
    IN  IF s = InfinityLiteral THEN Infinite(FALSE)
        ELSE IF AllDigits(ip) /\ AllDigits(fp) /\ Len(ip) + Len(fp) > 0
             THEN Finite(DigitsToNat(ip \o fp), Pow10(Len(fp)))
             ELSE NaN

Negate(x) == [x EXCEPT !.num = 0 - x.num]

\* Number(s) for a string s: white space is trimmed, the empty string is 0
Number(s) ==
    LET t == Trim(s)
    IN  IF t = <<>> THEN Finite(0, 1)
        ELSE IF Head(t) = "-" THEN Negate(UnsignedDecimal(Tail(t)))
        ELSE IF Head(t) = "+" THEN UnsignedDecimal(Tail(t))
        ELSE UnsignedDecimal(t)

IsFinite(x) == ~x.nan /\ ~x.inf

\* x < k and x > k for a number x and an integer k (false for NaN, as in JS)
NumLess(x, k) ==
    /\ ~x.nan
    /\ IF x.inf THEN x.num < 0 ELSE x.num < k * x.den

NumGreater(x, k) ==
    /\ ~x.nan
    /\ IF x.inf THEN x.num > 0 ELSE x.num > k * x.den

IsInteger(x) == IsFinite(x) /\ x.num % x.den = 0

\* BigInt(s): white space is trimmed, the empty string is 0n, otherwise an
\* optionally signed run of decimal digits; anything else throws SyntaxError.
BigIntThrows == [ok |-> FALSE, neg |-> FALSE, digits |-> <<>>]

BigIntOf(neg, ds) ==
    LET c == StripZeros(ds)
    IN  [ok |-> TRUE, neg |-> neg /\ c # <<"0">>, digits |-> c]

BigInt(s) ==
    LET t == Trim(s)
    IN  IF t = <<>> THEN BigIntOf(FALSE, <<"0">>)
        ELSE IF Head(t) \in {"-", "+"}
             THEN IF Len(t) > 1 /\ AllDigits(Tail(t))
                  THEN BigIntOf(Head(t) = "-", Tail(t))
                  ELSE BigIntThrows
        ELSE IF AllDigits(t) THEN BigIntOf(FALSE, t) ELSE BigIntThrows

\* 2^63 - 1, the largest value of a BIGINT column
MaxBigIntDigits ==
    <<"9", "2", "2", "3", "3", "7", "2", "0", "3", "6",
      "8", "5", "4", "7", "7", "5", "8", "0", "7">>
MinBigIntDigits ==
    <<"9", "2", "2", "3", "3", "7", "2", "0", "3", "6",
      "8", "5", "4", "7", "7", "5", "8", "0", "8">>

FitsBigIntColumn(pid) ==
    IF pid.neg THEN ~DigitsLess(MinBigIntDigits, pid.digits)
    ELSE ~DigitsLess(MaxBigIntDigits, pid.digits)


----------------------------------------------------------------------------
(* Tenant resolution: api.proxy.reviews.ts, getShopFromRequest *)

DotMyshopifyCom ==
    <<".", "m", "y", "s", "h", "o", "p", "i", "f", "y", ".", "c", "o", "m">>

\* /\.myshopify\.com$/i.test(host)
MatchesMyshopify(host) ==
    /\ Len(host) >= Len(DotMyshopifyCom)
    /\ ToLower(SubSeq(host, Len(host) - Len(DotMyshopifyCom) + 1, Len(host)))
         = DotMyshopifyCom

\* a header or query parameter is null when absent, else a string;
\* (x) as a condition is true for a non-empty string only
Truthy(v) == v.t = "str" /\ v.s # <<>>

\* a || b
OrElse(a, b) == IF Truthy(a) THEN a ELSE b

\* getShopFromRequest, were each host name tried in turn for the suffix
getShopFromRequestAnyHost(req) ==
    LET hdr == req.hdrShop
        q == req.qShop
        hosts == <<req.xForwardedHost, req.hostHeader, Str(req.urlHost)>>
        matching == SelectSeq(hosts, LAMBDA h : Truthy(h) /\ MatchesMyshopify(h.s))
    IN  IF Truthy(hdr) THEN hdr
        ELSE IF Truthy(q) THEN q
        ELSE IF matching # <<>> THEN Head(matching)
        ELSE Undefined

\* the result is a string value, or Undefined when no tenant resolves
getShopFromRequest(req) ==
    LET hdr == req.hdrShop
        q == req.qShop
        host == OrElse(req.xForwardedHost, OrElse(req.hostHeader, Str(req.urlHost)))
    IN  IF Truthy(hdr) THEN hdr
        ELSE IF Truthy(q) THEN q
        ELSE IF Truthy(host) /\ MatchesMyshopify(host.s) THEN host
        ELSE Undefined

----------------------------------------------------------------------------
(* The Review table and the repository calls made on it *)

ReviewStatus == {"pending", "approved", "trashed"}

\* keys every JavaScript object inherits from Object.prototype
ObjectPrototypeKeys ==
    {"constructor", "toString", "valueOf", "hasOwnProperty", "__proto__"}

\* ReviewStatus[key]: the enum member, an inherited member, or undefined
EnumLookup(key) ==
    IF key \in ReviewStatus THEN [kind |-> "status", v |-> key]
    ELSE IF key \in ObjectPrototypeKeys THEN [kind |-> "inherited", v |-> key]
    ELSE [kind |-> "undefined", v |-> ""]

\* key in ReviewStatus
InEnum(key) == key \in ReviewStatus \cup ObjectPrototypeKeys

Row(id, shop, pid, handle, rating, title, body, name, last, email, media, status, at) ==
    [id |-> id, shopDomain |-> shop, productId |-> pid, productHandle |-> handle,
     rating |-> rating, title |-> title, body |-> body, authorName |-> name,
     authorLastName |-> last, authorEmail |-> email, mediaUrl |-> media,
     status |-> status, createdAt |-> at, updatedAt |-> at]

\* prisma.review.findUnique({ where: { id } }): <<row>> or <<>>
FindUnique(store, id) ==
    IF id \in DOMAIN store THEN <<store[id]>> ELSE <<>>

\* UpdateStatus, were the row stamped as created anew
UpdateStatusCreatedAnew(store, id, status, now) ==
    [store EXCEPT ![id].status = status, ![id].updatedAt = now,
                  ![id].createdAt = now]

\* prisma.review.update({ where: { id }, data: { status } })
UpdateStatus(store, id, status, now) ==
    [store EXCEPT ![id].status = status, ![id].updatedAt = now]

\* prisma.review.delete({ where: { id } })
DeleteRow(store, id) == [i \in DOMAIN store \ {id} |-> store[i]]

\* prisma.review.create({ data }): the row gets a fresh id and both timestamps
CreateRow(store, row) == [i \in DOMAIN store \cup {row.id} |->
                            IF i = row.id THEN row ELSE store[i]]

\* Matching, were the tenant left out of the where clause
MatchingAnyShop(store, shop, status, pidFilter) ==
    {i \in DOMAIN store :
        /\ store[i].status = status
        /\ (pidFilter = <<>> \/ store[i].productId = pidFilter[1])}

\* rows of one tenant and status (and product, when given): the where clause
Matching(store, shop, status, pidFilter) ==
    {i \in DOMAIN store :
        /\ store[i].shopDomain = shop
        /\ store[i].status = status
        /\ (pidFilter = <<>> \/ store[i].productId = pidFilter[1])}

\* orderBy createdAt desc; rows of equal createdAt come in an order the
\* database chooses (tie = "asc" or "desc" by id stands for that choice)
Before(store, tie, i, j) ==
    \/ store[i].createdAt > store[j].createdAt
    \/ /\ store[i].createdAt = store[j].createdAt
       /\ IF tie = "asc" THEN i < j ELSE i > j

\* the rows of ids, sorted by Before
Ordered(store, tie, ids) ==
    LET last == IF ids = {} THEN 0 ELSE CHOOSE m \in ids : \A j \in ids : j <= m
        byId == SelectSeq([k \in 1..last |-> k], LAMBDA k : k \in ids)
        sorted == SortSeq(byId, LAMBDA i, j : Before(store, tie, i, j))
    IN  [k \in 1..Len(sorted) |-> store[sorted[k]]]

Take(rows, k) == SubSeq(rows, 1, IF Len(rows) < k THEN Len(rows) ELSE k)

\* prisma.review.findMany({ where, orderBy: { createdAt: "desc" }, take })
FindMany(store, shop, status, pidFilter, take, tie) ==
    Take(Ordered(store, tie, Matching(store, shop, status, pidFilter)), take)


----------------------------------------------------------------------------
(* Responses *)

\* new Response(text, { status })
PlainResponse(status, text) ==
    [status |-> status, text |-> text, reviews |-> <<>>, review |-> <<>>,
     echo |-> "", cors |-> FALSE]

\* safeJson({ ok: false, error }, { status }): always carries the CORS headers
ErrorJson(status, error) ==
    [status |-> status, text |-> error, reviews |-> <<>>, review |-> <<>>,
     echo |-> "", cors |-> TRUE]

\* an exception that leaves a merchant route: the framework answers 500
Thrown == PlainResponse(500, "Unexpected Server Error")

Op(name, id) == [op |-> name, id |-> id]

Outcome(store, resp, ops) == [store |-> store, response |-> resp, ops |-> ops]

----------------------------------------------------------------------------
(* Moderation Endpoint: app._index.tsx *)

\* const prismaStatus = ReviewStatus[statusParam] ?? ReviewStatus.pending
ModerationStatus(statusParam) ==
    LET looked == EnumLookup(statusParam)
    IN  IF looked.kind = "undefined" THEN [kind |-> "status", v |-> "pending"]
        ELSE looked

ModerationTake == 100

\* loader: the list of the merchant's reviews in one status
\*   req.session : the shop of the admin session, or Undefined
\*   req.status  : the status query parameter (Null when absent)
\*   req.dbFault : the repository call of this request that throws (0: none)
\*   req.tie     : the database's order among equal createdAt
ModerationLoader(store, req) ==
    LET shop == req.session
        statusParam == IF req.status.present THEN req.status.v ELSE "pending"
        prismaStatus == ModerationStatus(statusParam)
    IN  IF ~Truthy(shop) THEN Outcome(store, PlainResponse(401, "Unauthorized"), <<>>)
        ELSE IF prismaStatus.kind # "status" \/ req.dbFault = 1
             THEN Outcome(store, Thrown, <<Op("findMany", 0)>>)
        ELSE Outcome(store,
                     [status |-> 200, text |-> "", review |-> <<>>, cors |-> FALSE,
                      reviews |-> FindMany(store, shop.s, prismaStatus.v, <<>>,
                                           ModerationTake, req.tie),
                      echo |-> statusParam],
                     <<Op("findMany", 0)>>)

Intents == {"approve", "trash", "restore", "delete"}

\* TargetStatus, were a restored review published at once
TargetStatusRestoreApproved(intent) ==
    CASE intent = "approve" -> "approved"
      [] intent = "trash" -> "trashed"
      [] intent = "restore" -> "approved"

\* the status an intent writes
TargetStatus(intent) ==
    CASE intent = "approve" -> "approved"
      [] intent = "trash" -> "trashed"
      [] intent = "restore" -> "pending"

\* the write of the action, lines 119-138: no condition on the current status
ApplyIntent(store, id, intent, now) ==
    IF intent = "delete" THEN DeleteRow(store, id)
    ELSE UpdateStatus(store, id, TargetStatus(intent), now)

\* ModerationAction, were the review's tenant not compared with the session's
ModerationActionAnyTenant(store, req, now) ==
    LET shop == req.session
        found == FindUnique(store, req.id)
        load == <<Op("findUnique", req.id)>>
        write == IF req.intent = "delete" THEN Op("delete", req.id)
                 ELSE Op("update", req.id)
    IN  IF ~Truthy(shop) THEN Outcome(store, PlainResponse(401, "Unauthorized"), <<>>)
        ELSE IF req.id = 0
             THEN Outcome(store, PlainResponse(400, "Missing review id"), <<>>)
        ELSE IF req.dbFault = 1 THEN Outcome(store, Thrown, load)
        ELSE IF found = <<>>
             THEN Outcome(store, PlainResponse(404, "Not found"), load)
        ELSE IF req.intent \notin Intents
             THEN Outcome(store, PlainResponse(400, "Unknown intent"), load)
        ELSE IF req.dbFault = 2 THEN Outcome(store, Thrown, Append(load, write))
        ELSE Outcome(ApplyIntent(store, req.id, req.intent, now),
                     PlainResponse(200, "ok"), Append(load, write))

\* ModerationAction, were an intent that is none of the four taken as approve
ModerationActionDefaultApprove(store, req, now) ==
    LET shop == req.session
        found == FindUnique(store, req.id)
        load == <<Op("findUnique", req.id)>>
        intent == IF req.intent \in Intents THEN req.intent ELSE "approve"
        write == IF intent = "delete" THEN Op("delete", req.id)
                 ELSE Op("update", req.id)
    IN  IF ~Truthy(shop) THEN Outcome(store, PlainResponse(401, "Unauthorized"), <<>>)
        ELSE IF req.id = 0
             THEN Outcome(store, PlainResponse(400, "Missing review id"), <<>>)
        ELSE IF req.dbFault = 1 THEN Outcome(store, Thrown, load)
        ELSE IF found = <<>> \/ found[1].shopDomain # shop.s
             THEN Outcome(store, PlainResponse(404, "Not found"), load)
        ELSE IF req.dbFault = 2 THEN Outcome(store, Thrown, Append(load, write))
        ELSE Outcome(ApplyIntent(store, req.id, intent, now),
                     PlainResponse(200, "ok"), Append(load, write))

\* action: apply one intent to one review
\*   req.id : the id form field (0 stands for a missing or empty field)
ModerationAction(store, req, now) ==
    LET shop == req.session
        found == FindUnique(store, req.id)
        load == <<Op("findUnique", req.id)>>
        write == IF req.intent = "delete" THEN Op("delete", req.id)
                 ELSE Op("update", req.id)
    IN  IF ~Truthy(shop) THEN Outcome(store, PlainResponse(401, "Unauthorized"), <<>>)
        ELSE IF req.id = 0
             THEN Outcome(store, PlainResponse(400, "Missing review id"), <<>>)
        ELSE IF req.dbFault = 1 THEN Outcome(store, Thrown, load)
        ELSE IF found = <<>> \/ found[1].shopDomain # shop.s
             THEN Outcome(store, PlainResponse(404, "Not found"), load)
        ELSE IF req.intent \notin Intents
             THEN Outcome(store, PlainResponse(400, "Unknown intent"), load)
        ELSE IF req.dbFault = 2 THEN Outcome(store, Thrown, Append(load, write))
        ELSE Outcome(ApplyIntent(store, req.id, req.intent, now),
                     PlainResponse(200, "ok"), Append(load, write))


----------------------------------------------------------------------------
(* Ingestion Endpoint: api.proxy.reviews.ts *)

BodyKeys ==
    {"productId", "product_id", "rating", "title", "firstName", "name",
     "author_name", "lastName", "family_name", "last_name", "email",
     "author_email", "body", "review", "mediaUrl", "media_url",
     "product_handle", "status", "shopDomain", "media"}

NoFields == [k \in BodyKeys |-> Undefined]

\* the object with the given members and no others
Fields(members) ==
    [k \in BodyKeys |-> IF k \in DOMAIN members THEN members[k] ELSE Undefined]

\* readBody: what the handler reads the submitted fields and file from.
\*   req.contentType : the markers the content-type header includes
\*   req.body.enc    : the encoding of the bytes sent
\*   req.body.json   : for JSON bytes, "object", "null" or "scalar"
\* threw: request.formData() rejects; isNull: the JSON text is null
Parsed(kind, data, file) ==
    [threw |-> FALSE, isNull |-> FALSE, kind |-> kind, data |-> data, file |-> file]

ParseThrew ==
    [threw |-> TRUE, isNull |-> FALSE, kind |-> "form", data |-> NoFields, file |-> <<>>]

JsonData(body) ==
    IF body.enc # "json" THEN Parsed("json", NoFields, <<>>)
    ELSE IF body.json = "null"
         THEN [Parsed("json", NoFields, <<>>) EXCEPT !.isNull = TRUE]
    ELSE IF body.json = "scalar" THEN Parsed("json", NoFields, <<>>)
    ELSE Parsed("json", body.fields, <<>>)

readBody(req) ==
    LET body == req.body
        maybeFile == body.fields["media"]
    IN  IF "multipart/form-data" \in req.contentType
        THEN IF body.enc # "multipart" THEN ParseThrew
             ELSE Parsed("form", body.fields,
                         IF maybeFile.t = "file" /\ maybeFile.n > 0
                         THEN <<maybeFile>> ELSE <<>>)
        ELSE IF "application/x-www-form-urlencoded" \in req.contentType
        THEN Parsed("form",
                    IF body.enc = "urlencoded" THEN body.fields ELSE NoFields, <<>>)
        ELSE JsonData(body)

\* the normalized inputs, lines 217-236
Normalize(body) ==
    [productIdRaw |-> toStr(Coalesce(body["productId"], body["product_id"])),
     ratingRaw |-> toStr(body["rating"]),
     title |-> OrNull(toStr(body["title"])),
     firstName |-> toStr(Coalesce(body["firstName"],
                                  Coalesce(body["name"], body["author_name"]))),
     lastName |-> OrNull(toStr(Coalesce(body["lastName"],
                                  Coalesce(body["family_name"], body["last_name"])))),
     authorEmail |-> OrNull(toStr(Coalesce(body["email"], body["author_email"]))),
     text |-> IF body["body"].t # "undef" THEN toStr(body["body"])
              ELSE IF body["review"].t # "undef" THEN toStr(body["review"])
              ELSE <<>>,
     mediaUrlFromBody |-> OrNull(toStr(Coalesce(body["mediaUrl"], body["media_url"]))),
     productHandle |-> OrNull(toStr(body["product_handle"]))]

MaxBytes == 20 * 1024 * 1024

RECURSIVE LastDot(_)
LastDot(s) ==
    IF s = <<>> THEN 0
    ELSE IF s[Len(s)] = "." THEN Len(s)
    ELSE LastDot(SubSeq(s, 1, Len(s) - 1))

RECURSIVE KeepAlnum(_)
KeepAlnum(s) ==
    IF s = <<>> THEN <<>>
    ELSE IF IsLower(Head(s)) \/ IsDigit(Head(s))
         THEN <<Head(s)>> \o KeepAlnum(Tail(s))
    ELSE KeepAlnum(Tail(s))

Bin == <<"b", "i", "n">>

\* lines 281-282: the extension of the stored object
SafeExt(name) ==
    LET last == SubSeq(name, LastDot(name) + 1, Len(name))
        ext == ToLower(IF last = <<>> THEN Bin ELSE last)
        kept == KeepAlnum(ext)
    IN  IF kept = <<>> THEN Bin ELSE kept

\* line 285: reviews/<shop>/<productIdRaw>/<uuid>.<ext>
ObjectPath(shop, productIdRaw, uuid, ext) ==
    <<"r", "e", "v", "i", "e", "w", "s", "/">> \o shop \o <<"/">> \o productIdRaw
        \o <<"/">> \o NatToDigits(uuid) \o <<".">> \o ext

\* getPublicUrl(path).publicUrl
PublicUrl(path) == <<"h", "t", "t", "p", "s", ":", "/", "/", "c", "d", "n", "/">> \o path

PostOutcome(store, objects, resp, ops) ==
    [store |-> store, bucket |-> objects, response |-> resp, ops |-> ops]

\* handleOptions, were the pre-flight answered for requests of a tenant only
handleOptionsOfTenant(req) ==
    IF req.method = "OPTIONS" /\ Truthy(getShopFromRequest(req))
    THEN <<[status |-> 204, text |-> "", reviews |-> <<>>, review |-> <<>>,
            echo |-> "", cors |-> TRUE]>>
    ELSE <<>>

\* handleOptions
handleOptions(req) ==
    IF req.method = "OPTIONS"
    THEN <<[status |-> 204, text |-> "", reviews |-> <<>>, review |-> <<>>,
            echo |-> "", cors |-> TRUE]>>
    ELSE <<>>


MissingShopGet == "Missing shop. Ensure you call via the App Proxy."
MissingShopPost == "Missing shop. Ensure you post to the App Proxy."

PublicTake == 200

\* loader: the public list of a tenant's reviews
\*   req.productIdQ  : the product_id query parameter (Null when absent)
\*   req.productIdQ2 : the productId query parameter
\*   req.status      : the status query parameter
ProxyLoader(store, req) ==
    LET shop == getShopFromRequest(req)
        productIdRaw == Coalesce(req.productIdQ, Coalesce(req.productIdQ2, Null))
        pid == BigInt(toStr(productIdRaw))
        statusParam == IF req.status.present THEN req.status.v ELSE "approved"
        normalizedStatusKey == IF InEnum(statusParam) THEN statusParam ELSE "approved"
        whereStatus == EnumLookup(normalizedStatusKey)
        pidFilter == IF Truthy(productIdRaw)
                     THEN <<[neg |-> pid.neg, digits |-> pid.digits]>> ELSE <<>>
        read == <<Op("findMany", 0)>>
    IN  IF handleOptions(req) # <<>> THEN Outcome(store, handleOptions(req)[1], <<>>)
        ELSE IF ~Truthy(shop) THEN Outcome(store, ErrorJson(401, MissingShopGet), <<>>)
        ELSE IF Truthy(productIdRaw) /\ ~pid.ok
             THEN Outcome(store, ErrorJson(400, "Invalid product_id"), <<>>)
        ELSE IF \/ whereStatus.kind # "status"
                \/ (pidFilter # <<>> /\ ~FitsBigIntColumn(pid))
                \/ req.dbFault = 1
             THEN Outcome(store, ErrorJson(500, "Failed to load reviews"), read)
        ELSE Outcome(store,
                     [status |-> 200, text |-> "", review |-> <<>>, echo |-> "",
                      cors |-> TRUE,
                      reviews |-> FindMany(store, shop.s, whereStatus.v, pidFilter,
                                           PublicTake, req.tie)],
                     read)

\* NewRow, were the row created as approved
NewRowApproved(id, shop, pid, n, rating, finalMediaUrl, now) ==
    Row(id, shop, pid, n.productHandle, rating, n.title, n.text,
        n.firstName, n.lastName, n.authorEmail, finalMediaUrl, "approved", now)

\* the row handed to prisma.review.create, lines 302-316
NewRow(id, shop, pid, n, rating, finalMediaUrl, now) ==
    Row(id, shop, pid, n.productHandle, rating, n.title, n.text,
        n.firstName, n.lastName, n.authorEmail, finalMediaUrl, "pending", now)

\* CreateThrows, were a rating that is no Int let through to the table
CreateThrowsOnRangeOnly(req, pid, rating) ==
    \/ ~FitsBigIntColumn(pid)
    \/ req.dbFault = 1

\* prisma.review.create rejects a rating that is no Int ("rating" INTEGER) and
\* a productId that does not fit "productId" BIGINT; req.dbFault = 1 is a
\* failure of the database itself
CreateThrows(req, pid, rating) ==
    \/ ~IsInteger(rating)
    \/ ~FitsBigIntColumn(pid)
    \/ req.dbFault = 1

\* RatingRejected, were zero let through (rating < 0 for rating < 1)
RatingRejectedBelowZero(rating) ==
    ~IsFinite(rating) \/ NumLess(rating, 0) \/ NumGreater(rating, 5)

\* line 250: !Number.isFinite(rating) || rating < 1 || rating > 5
RatingRejected(rating) ==
    ~IsFinite(rating) \/ NumLess(rating, 1) \/ NumGreater(rating, 5)

\* MissingRequired, were the review text not required
MissingFirstNameOnly(firstName, text) == firstName = <<>>

\* line 254: !firstName || !text
MissingRequired(firstName, text) == firstName = <<>> \/ text = <<>>

\* FinalMediaUrl, were a URL named in the body kept when a file is uploaded
FinalMediaUrlBodyFirst(file, path, mediaUrlFromBody) ==
    IF file # <<>> /\ mediaUrlFromBody = Null THEN Str(PublicUrl(path))
    ELSE mediaUrlFromBody

\* lines 259 and 298-299: the URL of the uploaded object replaces the URL of
\* the body
FinalMediaUrl(file, path, mediaUrlFromBody) ==
    IF file # <<>> THEN Str(PublicUrl(path)) ELSE mediaUrlFromBody

\* ObjectsAfterFailedCreate, were the uploaded object removed again
ObjectsAfterFailedCreateCleaned(objects, stored) == objects

\* lines 302-322: when create throws, the catch answers and calls nothing;
\* the bucket stays as the upload left it
ObjectsAfterFailedCreate(objects, stored) == stored

\* FileTooLarge, were a file of exactly maxBytes rejected too
FileTooLargeAtLimit(size) == size >= MaxBytes

\* line 274: uploadedFile.size > maxBytes
FileTooLarge(size) == size > MaxBytes

\* ProxyAction, were the rating checked before the product id
ProxyActionRatingFirst(store, objects, configured, req, now, id, uuid) ==
    LET shop == getShopFromRequest(req)
        parsed == readBody(req)
        n == Normalize(parsed.data)
        pid == BigInt(n.productIdRaw)
        rating == Number(n.ratingRaw)
        file == parsed.file
        path == ObjectPath(shop.s, n.productIdRaw, uuid, SafeExt(file[1].s))
        up == <<Op("upload", uuid)>>
        stored == IF file # <<>> THEN objects \cup {path} ELSE objects
        ops == IF file # <<>> THEN up ELSE <<>>
        finalMediaUrl == FinalMediaUrl(file, path, n.mediaUrlFromBody)
        row == NewRow(id, shop.s, [neg |-> pid.neg, digits |-> pid.digits], n, rating,
                      finalMediaUrl, now)
        failed == ErrorJson(500, "Failed to submit review")
        reject(error) == PostOutcome(store, objects, ErrorJson(400, error), <<>>)
    IN  IF handleOptions(req) # <<>>
        THEN PostOutcome(store, objects, handleOptions(req)[1], <<>>)
        ELSE IF req.method # "POST"
             THEN PostOutcome(store, objects, ErrorJson(405, "Method not allowed"), <<>>)
        ELSE IF ~Truthy(shop)
             THEN PostOutcome(store, objects, ErrorJson(401, MissingShopPost), <<>>)
        ELSE IF parsed.threw \/ parsed.isNull
             THEN PostOutcome(store, objects, failed, <<>>)
        ELSE IF RatingRejected(rating) THEN reject("rating must be between 1 and 5")
        ELSE IF n.productIdRaw = <<>> THEN reject("product_id is required")
        ELSE IF ~pid.ok THEN reject("Invalid product_id")
        ELSE IF MissingRequired(n.firstName, n.text)
             THEN reject("name and review body are required")
        ELSE IF file # <<>> /\ ~configured THEN reject("Supabase is not configured.")
        ELSE IF file # <<>> /\ FileTooLarge(file[1].n)
             THEN reject("File is too large. Please keep it under 20MB.")
        ELSE IF file # <<>> /\ req.upload = "throw"
             THEN PostOutcome(store, objects, failed, up)
        ELSE IF file # <<>> /\ req.upload = "error"
             THEN PostOutcome(store, objects, ErrorJson(400, "upErr.message"), up)
        ELSE IF CreateThrows(req, pid, rating)
             THEN PostOutcome(store, ObjectsAfterFailedCreate(objects, stored), failed,
                              Append(ops, Op("create", 0)))
        ELSE PostOutcome(CreateRow(store, row), stored,
                         [status |-> 200, text |-> "", reviews |-> <<>>,
                          review |-> <<row>>, echo |-> "", cors |-> TRUE],
                         Append(ops, Op("create", id)))

\* action: create one review from a public submission
\*   configured : whether the storage client exists (lines 11-14)
\*   req.upload : what the storage client does with an upload:
\*                "ok", "error" (it returns an error) or "throw"
ProxyAction(store, objects, configured, req, now, id, uuid) ==
    LET shop == getShopFromRequest(req)
        parsed == readBody(req)
        n == Normalize(parsed.data)
        pid == BigInt(n.productIdRaw)
        rating == Number(n.ratingRaw)
        file == parsed.file
        path == ObjectPath(shop.s, n.productIdRaw, uuid, SafeExt(file[1].s))
        up == <<Op("upload", uuid)>>
        stored == IF file # <<>> THEN objects \cup {path} ELSE objects
        ops == IF file # <<>> THEN up ELSE <<>>
        finalMediaUrl == FinalMediaUrl(file, path, n.mediaUrlFromBody)
        row == NewRow(id, shop.s, [neg |-> pid.neg, digits |-> pid.digits], n, rating,
                      finalMediaUrl, now)
        failed == ErrorJson(500, "Failed to submit review")
        reject(error) == PostOutcome(store, objects, ErrorJson(400, error), <<>>)
    IN  IF handleOptions(req) # <<>>
        THEN PostOutcome(store, objects, handleOptions(req)[1], <<>>)
        ELSE IF req.method # "POST"
             THEN PostOutcome(store, objects, ErrorJson(405, "Method not allowed"), <<>>)
        ELSE IF ~Truthy(shop)
             THEN PostOutcome(store, objects, ErrorJson(401, MissingShopPost), <<>>)
        ELSE IF parsed.threw \/ parsed.isNull
             THEN PostOutcome(store, objects, failed, <<>>)
        ELSE IF n.productIdRaw = <<>> THEN reject("product_id is required")
        ELSE IF ~pid.ok THEN reject("Invalid product_id")
        ELSE IF RatingRejected(rating) THEN reject("rating must be between 1 and 5")
        ELSE IF MissingRequired(n.firstName, n.text)
             THEN reject("name and review body are required")
        ELSE IF file # <<>> /\ ~configured THEN reject("Supabase is not configured.")
        ELSE IF file # <<>> /\ FileTooLarge(file[1].n)
             THEN reject("File is too large. Please keep it under 20MB.")
        ELSE IF file # <<>> /\ req.upload = "throw"
             THEN PostOutcome(store, objects, failed, up)
        ELSE IF file # <<>> /\ req.upload = "error"
             THEN PostOutcome(store, objects, ErrorJson(400, "upErr.message"), up)
        ELSE IF CreateThrows(req, pid, rating)
             THEN PostOutcome(store, ObjectsAfterFailedCreate(objects, stored), failed,
                              Append(ops, Op("create", 0)))
        ELSE PostOutcome(CreateRow(store, row), stored,
                         [status |-> 200, text |-> "", reviews |-> <<>>,
                          review |-> <<row>>, echo |-> "", cors |-> TRUE],
                         Append(ops, Op("create", id)))


----------------------------------------------------------------------------
(* Requests of the model *)

ShopA == <<"a">> \o DotMyshopifyCom
ShopB == <<"b">> \o DotMyshopifyCom
ExampleCom == <<"e", "x", "a", "m", "p", "l", "e", ".", "c", "o", "m">>

Origin(hdr, q, xfh, host, urlHost) ==
    [hdrShop |-> hdr, qShop |-> q, xForwardedHost |-> xfh, hostHeader |-> host,
     urlHost |-> urlHost]

\* where the requests of the store's behaviours come from: the header, the
\* query parameter, the forwarded host, and a request of no tenant
FromHeaderA == Origin(Str(ShopA), Str(ShopB), Null, Str(ExampleCom), ExampleCom)
FromQueryB == Origin(Str(<<>>), Str(ShopB), Str(ShopA), Str(ExampleCom), ExampleCom)
FromHostA == Origin(Null, Null, Str(ShopA), Str(ExampleCom), ExampleCom)
FromNowhere == Origin(Null, Null, Null, Str(ExampleCom), ExampleCom)
Present(v) == [present |-> TRUE, v |-> v]
Absent == [present |-> FALSE, v |-> ""]

StatusParams ==
    {Absent, Present("pending"), Present("approved"), Present("trashed"),
     Present("published"), Present(""), Present("constructor")}

Ties == {"asc", "desc"}

ModerationListRequest(session, status, tie, dbFault) ==
    [endpoint |-> "moderation", route |-> "loader", method |-> "GET",
     session |-> session, status |-> status, tie |-> tie, dbFault |-> dbFault]

ModerationListRequests ==
    {ModerationListRequest(Str(ShopA), st, "asc", 0) :
        st \in {Absent, Present("trashed")}}
    \cup {ModerationListRequest(Str(ShopB), Present("approved"), "desc", 0),
          ModerationListRequest(Undefined, Absent, "asc", 0)}

ModerationRequest(session, id, intent, dbFault) ==
    [endpoint |-> "moderation", route |-> "action", method |-> "POST",
     session |-> session, id |-> id, intent |-> intent, dbFault |-> dbFault]

ModerationRequests ==
    {ModerationRequest(Str(ShopA), id, intent, 0) :
        id \in 1..(MaxReviews + 1), intent \in Intents \cup {"publish"}}
    \cup {ModerationRequest(Str(ShopB), id, intent, 0) :
            id \in 1..(MaxReviews + 1), intent \in {"approve", "delete"}}
    \cup {ModerationRequest(Undefined, 1, "approve", 0),
          ModerationRequest(Str(ShopA), 0, "approve", 0),
          ModerationRequest(Str(ShopA), 1, "approve", 1),
          ModerationRequest(Str(ShopA), 1, "delete", 2)}

P100 == <<"1", "0", "0">>
P200 == <<"2", "0", "0">>

ProxyListRequest(origin, method, pq, pq2, status, tie, dbFault) ==
    [endpoint |-> "proxy", route |-> "loader", method |-> method,
     hdrShop |-> origin.hdrShop, qShop |-> origin.qShop,
     xForwardedHost |-> origin.xForwardedHost,
     hostHeader |-> origin.hostHeader, urlHost |-> origin.urlHost,
     productIdQ |-> pq, productIdQ2 |-> pq2, status |-> status, tie |-> tie,
     dbFault |-> dbFault]

ProductQueries ==
    {<<Null, Null>>, <<Str(P100), Str(P200)>>, <<Null, Str(P200)>>,
     <<Str(<<"1", ".", "5">>), Null>>, <<Str(<<>>), Str(P200)>>}

ProxyListRequests ==
    {ProxyListRequest(FromHeaderA, "GET", Null, Null, Absent, "asc", 0),
     ProxyListRequest(FromQueryB, "GET", Null, Null, Present("pending"), "desc", 0),
     ProxyListRequest(FromNowhere, "GET", Null, Null, Absent, "asc", 0)}

Amy == <<"A", "m", "y">>
Great == <<"G", "r", "e", "a", "t", "!">>
Approved == <<"a", "p", "p", "r", "o", "v", "e", "d">>
PhotoJpg == <<"p", ".", "J", "P", "G">>

Json == {"application/json"}
UrlEncoded == {"application/x-www-form-urlencoded"}
Multipart == {"multipart/form-data"}
NoContentType == {}

Submission(origin, method, ct, enc, json, fields, upload, dbFault) ==
    [endpoint |-> "proxy", route |-> "action", method |-> method,
     hdrShop |-> origin.hdrShop, qShop |-> origin.qShop,
     xForwardedHost |-> origin.xForwardedHost,
     hostHeader |-> origin.hostHeader, urlHost |-> origin.urlHost,
     contentType |-> ct, body |-> [enc |-> enc, json |-> json, fields |-> fields],
     upload |-> upload, dbFault |-> dbFault]

\* the submission of the specification's example, and variations of it
Example ==
    Fields([product_id |-> Str(P100), rating |-> Str(<<"5">>), name |-> Str(Amy),
            review |-> Str(Great)])

\* a JSON submission of every field, which also names a status and a tenant
Complete ==
    Fields([productId |-> Num(200), product_id |-> Str(P100), rating |-> Num(3),
            title |-> Str(<<"T">>), firstName |-> Str(<<"B">>), name |-> Str(Amy),
            lastName |-> Str(<<"L">>), email |-> Str(<<"@">>), body |-> Str(<<"b">>),
            review |-> Str(Great), mediaUrl |-> Str(<<"u">>),
            product_handle |-> Str(<<"h">>), status |-> Str(Approved),
            shopDomain |-> Str(ShopA)])

With(fields, key, value) == [fields EXCEPT ![key] = value]

RatingInputs ==
    {Undefined, Str(<<>>), Str(<<"0">>), Str(<<"6">>), Str(<<"-", "1">>),
     Str(<<"a">>), Str(<<"4", ".", "5">>), Str(<<" ", "5", ".", "0">>),
     Str(InfinityLiteral), Str(<<"0", ".", "9">>), Str(<<"5", ".", "1">>)}

ProductInputs ==
    {Undefined, Str(<<>>), Str(<<"1", ".", "5">>), Str(<<"a">>),
     Str(MaxBigIntDigits), Str(MinBigIntDigits)}

FormBodies ==
    {Example}
    \cup {With(Example, "rating", r) : r \in RatingInputs}
    \cup {With(Example, "product_id", p) : p \in ProductInputs}
    \cup {With(Example, "name", Undefined), With(Example, "review", Str(<<>>)),
          With(With(Example, "firstName", Str(<<>>)), "body", Str(<<"b">>)),
          With(With(Example, "rating", Str(<<"9">>)), "name", Undefined)}

JsonBodies ==
    {Example, Complete, With(Example, "rating", Num(5)), With(Example, "rating", Num(0)),
     With(Example, "name", Null), With(Complete, "body", Null)}

SmallFile == FileVal(PhotoJpg, 1)
EmptyFile == FileVal(PhotoJpg, 0)
LargestFile == FileVal(PhotoJpg, MaxBytes)
TooLargeFile == FileVal(PhotoJpg, MaxBytes + 1)

FileBodies ==
    {With(Example, "media", f) : f \in {SmallFile, EmptyFile, LargestFile, TooLargeFile}}
    \cup {With(With(Example, "media", SmallFile), "media_url", Str(<<"u">>)),
          With(With(Example, "media", SmallFile), "rating", Str(<<"6">>)),
          With(With(Example, "media", TooLargeFile), "review", Undefined),
          With(With(Example, "media", EmptyFile), "mediaUrl", Str(<<"u">>)),
          With(Example, "name", SmallFile)}

Submissions ==
    {Submission(FromHeaderA, "POST", UrlEncoded, "urlencoded", "object", b, "ok", 0) :
        b \in {Example, With(Example, "rating", Str(<<"4", ".", "5">>)),
               With(Example, "rating", Str(<<"6">>))}}
    \cup {Submission(FromQueryB, "POST", Json, "json", "object", Complete, "ok", 0)}
    \cup {Submission(FromNowhere, "POST", Json, "json", "object", Example, "ok", 0)}

----------------------------------------------------------------------------
(* The state machine *)

NoRequest == [endpoint |-> "none", route |-> "none", method |-> "none"]

Init ==
    /\ reviews = <<>>
    /\ nextId = 1
    /\ clock = 0
    /\ bucket = {}
    /\ nextObj = 1
    /\ supabase = TRUE
    /\ request = NoRequest
    /\ response = PlainResponse(0, "")
    /\ calls = <<>>
    /\ before = <<>>
    /\ progress = <<>>
    /\ inflight = <<>>

\* the timestamp of a write: the clock may or may not have advanced
Now == {t \in {clock, clock + 1} : t <= MaxClock}

\* GET /app?status=...
DoListForMerchant(req) ==
    LET out == ModerationLoader(reviews, req)
    IN  /\ request' = req
        /\ response' = out.response
        /\ calls' = out.ops
        /\ before' = reviews
        /\ UNCHANGED <<reviews, nextId, clock, bucket, nextObj, supabase, progress,
                       inflight>>

ListForMerchant == \E req \in ModerationListRequests : DoListForMerchant(req)

\* how a successful call moves a review through approve, trash, restore
Advance(step, status, intent) ==
    IF intent = "approve" /\ status = "pending" THEN 1
    ELSE IF intent = "trash" /\ step = 1 THEN 2
    ELSE IF intent = "restore" /\ step = 2 THEN 3
    ELSE 0

\* POST /app with id and intent
Moderate ==
    \E req \in ModerationRequests, now \in Now :
        LET out == ModerationAction(reviews, req, now)
        IN  /\ request' = req
            /\ response' = out.response
            /\ calls' = out.ops
            /\ before' = reviews
            /\ reviews' = out.store
            /\ clock' = IF out.store # reviews THEN now ELSE clock
            /\ progress' = [i \in DOMAIN out.store |->
                               IF i = req.id /\ out.response.status = 200
                               THEN Advance(progress[i], reviews[i].status, req.intent)
                               ELSE progress[i]]
            /\ UNCHANGED <<nextId, bucket, nextObj, supabase, inflight>>

\* GET or OPTIONS /apps/<proxy>/reviews
DoListForPublic(req) ==
    LET out == ProxyLoader(reviews, req)
    IN  /\ request' = req
        /\ response' = out.response
        /\ calls' = out.ops
        /\ before' = reviews
        /\ UNCHANGED <<reviews, nextId, clock, bucket, nextObj, supabase, progress,
                       inflight>>

ListForPublic == \E req \in ProxyListRequests : DoListForPublic(req)

\* POST (or another method) /apps/<proxy>/reviews, answered with out
DoSubmit(req, now, out) ==
    /\ request' = req
    /\ response' = out.response
    /\ calls' = out.ops
    /\ before' = reviews
    /\ reviews' = out.store
    /\ bucket' = out.bucket
    /\ nextId' = IF out.store # reviews THEN nextId + 1 ELSE nextId
    /\ nextObj' = IF out.bucket # bucket THEN nextObj + 1 ELSE nextObj
    /\ clock' = IF out.store # reviews THEN now ELSE clock
    /\ progress' = [i \in DOMAIN out.store |->
                       IF i \in DOMAIN progress THEN progress[i] ELSE 0]
    /\ UNCHANGED <<supabase, inflight>>

Handled(req, now) == ProxyAction(reviews, bucket, supabase, req, now, nextId, nextObj)

Submit ==
    \E req \in Submissions, now \in Now :
        /\ Handled(req, now).store # reviews => nextId <= MaxReviews
        /\ Handled(req, now).bucket # bucket => nextObj <= MaxObjects
        /\ DoSubmit(req, now, Handled(req, now))

Next == ListForMerchant \/ Moderate \/ ListForPublic \/ Submit

Spec == Init /\ [][Next]_vars


----------------------------------------------------------------------------
(* Properties of the moderation and ingestion of stored reviews (Spec) *)

IsModerationCall == request.endpoint = "moderation" /\ request.route = "action"
IsSubmission ==
    request.endpoint = "proxy" /\ request.route = "action" /\ request.method = "POST"
IsList == request.route = "loader" /\ request.method = "GET"

DefinedTransitions ==
    {<<"pending", "approved">>, <<"pending", "trashed">>,
     <<"approved", "trashed">>, <<"trashed", "pending">>}

\* C1: every change of a stored review's status made by a moderation call is
\* one of pending->approved, pending->trashed, approved->trashed,
\* trashed->pending.
C1_OnlyDefinedTransitions ==
    IsModerationCall =>
        \A i \in DOMAIN before \cap DOMAIN reviews :
            before[i].status # reviews[i].status =>
                <<before[i].status, reviews[i].status>> \in DefinedTransitions

\* the id of the call names no review of the caller's tenant
ForeignOrUnknown ==
    /\ IsModerationCall
    /\ Truthy(request.session)
    /\ request.id # 0
    /\ \/ request.id \notin DOMAIN before
       \/ before[request.id].shopDomain # request.session.s

\* C2: a moderation call with the id of another tenant's review is answered
\* exactly as a call with an id that no tenant has (404 Not found), changes
\* nothing in the store, writes nothing and returns no review data, for
\* every intent.
C2_ForeignIsNotFound ==
    ForeignOrUnknown =>
        /\ reviews = before
        /\ \A k \in 1..Len(calls) : calls[k].op = "findUnique"
        /\ response.reviews = <<>> /\ response.review = <<>>
        /\ request.dbFault = 0 => response = PlainResponse(404, "Not found")
        /\ response =
             ModerationAction(before, [request EXCEPT !.id = MaxReviews + 1],
                              clock).response

C2_Witness ==
    /\ ForeignOrUnknown
    /\ request.id \in DOMAIN before
    /\ request.session = Str(ShopA)
    /\ before[request.id].shopDomain = ShopB
    /\ request.intent = "delete"
    /\ response.status = 404

\* C3: a POST answered 200 has added exactly one review, pending and of the
\* resolved tenant, whatever status or shopDomain the body names, and has
\* left every other review as it was; a body submitted again is stored again.
C3_CreatesOnePending ==
    (IsSubmission /\ response.status = 200) =>
        \E i \in DOMAIN reviews \ DOMAIN before :
            /\ DOMAIN reviews = DOMAIN before \cup {i}
            /\ \A j \in DOMAIN before : reviews[j] = before[j]
            /\ reviews[i].status = "pending"
            /\ reviews[i].shopDomain = getShopFromRequest(request).s
            /\ response.review = <<reviews[i]>>

SameSubmission(r, q) ==
    /\ r.shopDomain = q.shopDomain /\ r.productId = q.productId
    /\ r.rating = q.rating /\ r.body = q.body /\ r.authorName = q.authorName
    /\ r.title = q.title /\ r.mediaUrl = q.mediaUrl

C3_Witness ==
    /\ IsSubmission /\ response.status = 200
    /\ request.body.fields["status"] = Str(Approved)
    /\ request.body.fields["shopDomain"] = Str(ShopA)
    /\ getShopFromRequest(request) = Str(ShopB)
    /\ \E i \in DOMAIN before, j \in DOMAIN reviews \ DOMAIN before :
          SameSubmission(reviews[i], reviews[j])

\* C4: every stored review has an integer rating from 1 to 5, a non-empty
\* body and author name, one tenant and one product, and a status of the
\* enumeration.
C4_StoredReviewsWellFormed ==
    \A i \in DOMAIN reviews :
        LET r == reviews[i]
        IN  /\ IsInteger(r.rating) /\ r.rating.den = 1
            /\ r.rating.num \in 1..5
            /\ r.body # <<>>
            /\ r.authorName # <<>>
            /\ r.shopDomain # <<>>
            /\ r.productId.digits # <<>> /\ AllDigits(r.productId.digits)
            /\ r.status \in ReviewStatus
            /\ r.id = i

C4_Witness ==
    /\ IsSubmission
    /\ request.body.fields["rating"] = Str(<<"4", ".", "5">>)
    /\ response.status = 500
    /\ \E i \in DOMAIN reviews : reviews[i].status = "trashed"

\* the caller owns the review named and asks for a known intent
OwnCall(intent) ==
    /\ IsModerationCall
    /\ Truthy(request.session)
    /\ request.id \in DOMAIN before
    /\ before[request.id].shopDomain = request.session.s
    /\ request.intent = intent
    /\ request.dbFault = 0

Deleted(i) == i < nextId /\ i \notin DOMAIN reviews

C7_Sequence ==
    /\ \A i \in DOMAIN reviews : progress[i] = 3 => reviews[i].status = "pending"
    /\ OwnCall("approve") =>
          response.status = 200 /\ reviews[request.id].status = "approved"
    /\ OwnCall("trash") =>
          response.status = 200 /\ reviews[request.id].status = "trashed"
    /\ OwnCall("restore") =>
          response.status = 200 /\ reviews[request.id].status = "pending"
    /\ OwnCall("delete") => response.status = 200 /\ Deleted(request.id)
    /\ (IsModerationCall /\ Truthy(request.session) /\ request.dbFault = 0
          /\ request.id # 0 /\ request.id \notin DOMAIN before)
          => response.status = 404
    /\ IsList => \A k \in 1..Len(response.reviews) : ~Deleted(response.reviews[k].id)

C7_Permanent ==
    \A i \in 1..MaxReviews : Deleted(i) => i \notin DOMAIN reviews'

\* C7: approve, trash, restore, applied by the owner in that order to a
\* pending review, each succeed and leave it pending; a successful delete
\* from any status removes the review for good: its id is absent from every
\* later state, later calls on it are answered 404, no list returns it.
C7_SequenceAndDelete == []C7_Sequence /\ [][C7_Permanent]_vars

C7_Witness ==
    /\ \E i \in DOMAIN reviews : progress[i] = 3
    /\ \E j \in 1..MaxReviews : Deleted(j)
    /\ IsModerationCall /\ request.id \notin DOMAIN before /\ response.status = 404


----------------------------------------------------------------------------
(* One public submission, drawn from many, answered on a store of one review *)

MaxRatingLen == 3

RatingAlphabet == {"0", "1", "5", "6", ".", "-", " ", "a"}

StringsUpTo(alphabet, n) == UNION {[1..k -> alphabet] : k \in 0..n}

\* what the rating member of a body can be
WideRatings ==
    {Str(r) : r \in StringsUpTo(RatingAlphabet, MaxRatingLen)}
    \cup {Str(InfinityLiteral), Undefined}

JsonRatings == {Null} \cup {Num(k) : k \in -1..6}

\* the rest of the submission the rating comes with
RatingCompanions ==
    {Example, With(Example, "name", Undefined), With(Example, "review", Str(<<>>))}

FileCompanions == {With(Example, "media", SmallFile)}

\* what a name or text member of a body can be
TextInputs(text) == {Undefined, Str(<<>>), Str(text)}

NameBodies(ratings, more) ==
    {Fields([product_id |-> Str(P100), rating |-> r, firstName |-> f, name |-> m,
             author_name |-> a, body |-> b, review |-> v]) :
        r \in ratings,
        f \in TextInputs(<<"F">>) \cup more, m \in TextInputs(Amy),
        a \in TextInputs(<<"N">>) \cup more,
        b \in TextInputs(<<"b">>) \cup more, v \in TextInputs(Great)}

\* submissions during which the storage client throws, the database fails,
\* or the bytes sent are not of the announced content type
FailingRequests ==
    {Submission(FromHostA, "POST", Multipart, "multipart", "object", b, "throw", 0) :
        b \in FileBodies}
    \cup {Submission(FromHeaderA, "POST", Multipart, "multipart", "object", b, "ok", 1) :
            b \in {Example, With(Example, "media", SmallFile),
                   With(With(Example, "media", SmallFile), "mediaUrl", Str(<<"u">>))}}
    \cup {Submission(FromHeaderA, "POST", ct, enc, "object", Example, "ok", 0) :
            ct \in {Multipart, UrlEncoded, Json},
            enc \in {"multipart", "urlencoded", "json"}}

\* submissions that fail any number of the checks at once
ManyFaultRequests ==
    {Submission(o, "POST", Multipart, "multipart", "object",
                Fields([product_id |-> p, rating |-> r, name |-> m, review |-> v,
                        media |-> f]), "ok", 0) :
        o \in {FromHeaderA, FromNowhere},
        p \in {Undefined, Str(<<"a">>), Str(P100)},
        r \in {Str(<<"5">>), Str(<<"6">>)},
        m \in {Undefined, Str(Amy)},
        v \in {Str(<<>>), Str(Great)},
        f \in {Undefined, SmallFile, TooLargeFile}}

IngestRequests ==
    {Submission(FromHeaderA, "POST", UrlEncoded, "urlencoded", "object",
                With(b, "rating", r), "ok", 0) :
        r \in WideRatings, b \in RatingCompanions}
    \cup {Submission(FromHostA, "POST", Multipart, "multipart", "object",
                     With(b, "rating", r), up, 0) :
            r \in WideRatings, b \in FileCompanions, up \in {"ok"}}
    \cup {Submission(FromQueryB, "POST", Json, "json", "object",
                     With(Complete, "rating", r), "ok", 0) : r \in JsonRatings}
    \cup {Submission(FromHeaderA, "POST", UrlEncoded, "urlencoded", "object", b, "ok", 0) :
            b \in NameBodies({Str(<<"5">>), Str(<<"7">>)}, {})}
    \cup {Submission(FromQueryB, "POST", ct, "json", "object", b, "ok", 0) :
            b \in NameBodies({Num(1)}, {Null}), ct \in {Json, NoContentType}}
    \cup {Submission(FromHeaderA, "POST", Multipart, "multipart", "object",
                     With(b, "media", SmallFile), "ok", 0) :
            b \in NameBodies({Str(<<"5">>)}, {SmallFile})}
    \cup {Submission(FromHeaderA, "POST", UrlEncoded, "urlencoded", "object", b, "ok", 0) :
            b \in FormBodies}
    \cup {Submission(FromQueryB, "POST", Json, "json", "object", b, "ok", 0) :
            b \in JsonBodies}
    \cup {Submission(FromHostA, "POST", Multipart, "multipart", "object", b, up, 0) :
            b \in FileBodies, up \in {"ok", "error"}}
    \cup FailingRequests
    \cup ManyFaultRequests

\* a review stored earlier: the example submission, since approved
EarlierReview ==
    [Row(1, ShopA, [neg |-> FALSE, digits |-> P100], Null, Finite(5, 1), Null, Great,
         Amy, Null, Null, Null, "approved", 0) EXCEPT !.updatedAt = 1]

Unanswered == PlainResponse(0, "")

\* the time of the last write of a store
LastWrite(store) ==
    LET stamps == {store[i].updatedAt : i \in DOMAIN store} \cup {0}
    IN  CHOOSE t \in stamps : \A u \in stamps : u <= t

InitAnswering(store, req) ==
    /\ reviews = store
    /\ nextId = Len(store) + 1
    /\ clock = LastWrite(store)
    /\ bucket = {}
    /\ nextObj = 1
    /\ request = req
    /\ response = Unanswered
    /\ calls = <<>>
    /\ before = store
    /\ progress = [i \in DOMAIN store |-> 0]
    /\ inflight = <<>>

\* the storage client is configured or not: a submission without a file
\* never looks at it
InitIngest ==
    \E req \in IngestRequests :
        /\ InitAnswering(<<EarlierReview>>, req)
        /\ supabase \in IF req.body.fields["media"].t = "file" THEN BOOLEAN ELSE {TRUE}

AnswerSubmission ==
    /\ response = Unanswered
    /\ request.endpoint = "proxy" /\ request.route = "action"
    /\ \E now \in Now : DoSubmit(request, now, Handled(request, now))

SpecIngest == InitIngest /\ [][AnswerSubmission]_vars


----------------------------------------------------------------------------
(* Properties of the validation of one submission (SpecIngest) *)

Answered == response # Unanswered

SubmittedFields == request.body.fields

\* the bytes sent are of the content type the request announces
BodyReadable ==
    \/ "multipart/form-data" \in request.contentType /\ request.body.enc = "multipart"
    \/ /\ "multipart/form-data" \notin request.contentType
       /\ "application/x-www-form-urlencoded" \in request.contentType
       /\ request.body.enc = "urlencoded"
    \/ /\ "multipart/form-data" \notin request.contentType
       /\ "application/x-www-form-urlencoded" \notin request.contentType
       /\ request.body.enc = "json" /\ request.body.json = "object"

\* the tenant resolves and the product id is present and an integer
TenantAndProductValid ==
    /\ IsSubmission /\ Answered
    /\ Truthy(getShopFromRequest(request))
    /\ BodyReadable
    /\ LET raw == toStr(IF Nullish(SubmittedFields["productId"])
                        THEN SubmittedFields["product_id"]
                        ELSE SubmittedFields["productId"])
       IN  raw # <<>> /\ BigInt(raw).ok

\* the rating is absent or empty, is no number, or is a number outside [1,5]
BadRating(v) ==
    \/ v.t \in {"undef", "null", "file"}
    \/ LET x == Number(toStr(v))
       IN  x.nan \/ x.inf \/ x.num < x.den \/ x.num > 5 * x.den

NothingStoredOrUploaded ==
    /\ reviews = before
    /\ bucket = {}
    /\ calls = <<>>

\* C5: a POST of a resolvable tenant and valid productId whose rating is
\* outside [1,5], not a number, empty or absent is answered 400, and neither
\* a review nor a media object is stored, whatever else it carries.
C5_BadRatingRejected ==
    (TenantAndProductValid /\ BadRating(SubmittedFields["rating"])) =>
        response.status = 400 /\ NothingStoredOrUploaded

C5_Witness ==
    /\ TenantAndProductValid
    /\ SubmittedFields["rating"] = Str(<<"6">>)
    /\ SubmittedFields["media"] = SmallFile
    /\ supabase
    /\ response.status = 400

\* the first of firstName, name, author_name that is present, as a string
FirstNameOf(f) ==
    toStr(IF ~Nullish(f["firstName"]) THEN f["firstName"]
          ELSE IF ~Nullish(f["name"]) THEN f["name"]
          ELSE f["author_name"])

\* body when the body has that member, else review
TextOf(f) ==
    IF f["body"].t # "undef" THEN toStr(f["body"])
    ELSE IF f["review"].t # "undef" THEN toStr(f["review"])
    ELSE <<>>

\* C6: a POST of a resolvable tenant, valid productId and valid rating whose
\* normalized first name or normalized review text is empty is answered 400,
\* and neither a review nor a media object is stored.
C6_MissingNameOrTextRejected ==
    (/\ TenantAndProductValid
     /\ ~BadRating(SubmittedFields["rating"])
     /\ (FirstNameOf(SubmittedFields) = <<>> \/ TextOf(SubmittedFields) = <<>>))
    => response.status = 400 /\ NothingStoredOrUploaded

C6_Witness ==
    /\ TenantAndProductValid
    /\ ~BadRating(SubmittedFields["rating"])
    /\ SubmittedFields["firstName"] = Str(<<"F">>)
    /\ SubmittedFields["body"] = Str(<<>>)
    /\ SubmittedFields["review"] = Str(Great)
    /\ SubmittedFields["media"] = SmallFile
    /\ supabase
    /\ response.status = 400


----------------------------------------------------------------------------
(* One list call, drawn from many, answered on a store drawn from many *)

StoredRow(id, shop, pid, status, at) ==
    Row(id, shop, [neg |-> FALSE, digits |-> pid], Null, Finite(5, 1), Null, Great,
        Amy, Null, Null, Null, status, at)

\* tenant, product and status of the rows of the small stores
RowKinds ==
    {<<ShopA, P100, "pending">>, <<ShopA, P100, "approved">>,
     <<ShopA, P200, "approved">>, <<ShopA, P100, "trashed">>,
     <<ShopB, P100, "approved">>}

\* createdAt of rows 1..n: later rows are not older
Stamps(n) ==
    {f \in [1..n -> 0..MaxClock] : \A i \in 1..n : \A j \in i..n : f[i] <= f[j]}

SmallStores ==
    UNION {{[i \in 1..n |-> StoredRow(i, kinds[i][1], kinds[i][2], kinds[i][3], at[i])] :
                kinds \in [1..n -> RowKinds], at \in Stamps(n)} :
           n \in 0..MaxReviews}

\* more rows of one tenant, status and product than either cap
BulkRows == PublicTake + 50

OtherStatus(status) == IF status = "pending" THEN "approved" ELSE "pending"

\* a store of BulkRows rows, nearly all of ShopA, product 100 and the status,
\* created two at a time
BulkStore(status) ==
    [i \in 1..BulkRows |->
        StoredRow(i,
                  IF i % 25 = 0 THEN ShopB ELSE ShopA,
                  IF i % 25 = 2 THEN P200 ELSE P100,
                  IF i % 25 = 1 THEN OtherStatus(status) ELSE status,
                  i \div 2)]

ListRequests ==
    {ModerationListRequest(Str(ShopA), st, tie, 0) : st \in StatusParams, tie \in Ties}
    \cup {ModerationListRequest(Str(ShopB), st, "desc", 0) :
            st \in {Absent, Present("approved")}}
    \cup {ModerationListRequest(Undefined, Absent, "asc", 0)}
    \cup {ProxyListRequest(FromHeaderA, "GET", Null, Null, st, "asc", 0) :
            st \in StatusParams}
    \cup {ProxyListRequest(FromHeaderA, "GET", pq[1], pq[2], st, "asc", 0) :
            pq \in ProductQueries,
            st \in {Absent, Present("approved"), Present("pending")}}
    \cup {ProxyListRequest(FromQueryB, "GET", Null, Null, st, "desc", 0) :
            st \in StatusParams}

BulkListRequests(status) ==
    {ModerationListRequest(Str(ShopA), Present(status), tie, 0) : tie \in Ties}
    \cup {ProxyListRequest(FromHeaderA, "GET", pq, Null, Present(status), tie, 0) :
            pq \in {Null, Str(P100)}, tie \in Ties}

InitList ==
    /\ supabase = TRUE
    /\ \/ \E store \in SmallStores, req \in ListRequests : InitAnswering(store, req)
       \/ \E status \in ReviewStatus : \E req \in BulkListRequests(status) :
              InitAnswering(BulkStore(status), req)

AnswerMerchantList ==
    /\ response = Unanswered
    /\ request.endpoint = "moderation" /\ request.route = "loader"
    /\ DoListForMerchant(request)

AnswerPublicList ==
    /\ response = Unanswered
    /\ request.endpoint = "proxy" /\ request.route = "loader"
    /\ DoListForPublic(request)

SpecList == InitList /\ [][AnswerMerchantList \/ AnswerPublicList]_vars

----------------------------------------------------------------------------
(* Properties of one list call (SpecList) *)

\* the tenant a list call is made for
ListTenant ==
    IF request.endpoint = "moderation" THEN request.session
    ELSE getShopFromRequest(request)

\* the product_id (else productId) parameter of a public list call
ListProductRaw ==
    IF request.endpoint = "moderation" THEN Null
    ELSE IF Nullish(request.productIdQ) THEN request.productIdQ2
    ELSE request.productIdQ

\* the product a list call asks for: <<>> when none
ListProduct ==
    IF Truthy(ListProductRaw) THEN <<BigInt(ListProductRaw.s).digits>> ELSE <<>>

\* the call names a tenant and, if it names a product, names it by an integer
WellFormedList ==
    /\ IsList /\ Answered
    /\ Truthy(ListTenant)
    /\ Truthy(ListProductRaw) => BigInt(ListProductRaw.s).ok

Wanted(row, shop, status) ==
    /\ row.shopDomain = shop
    /\ row.status = status
    /\ (ListProduct = <<>> \/ row.productId.digits = ListProduct[1])

AtMost(n, cap) == IF n < cap THEN n ELSE cap

\* C8: a list call of tenant T for status S is answered 200 with rows of the store whose
\* shopDomain is T and whose status is S (and whose product is the one asked
\* for on the public GET), newest createdAt first, as many as there are up to
\* 100 on the moderation endpoint and 200 on the public GET.
C8_ListsOnlyTenantAndStatus ==
    \A status \in ReviewStatus :
        (WellFormedList /\ request.status = Present(status))
        => LET rows == response.reviews
               cap == IF request.endpoint = "moderation" THEN 100 ELSE 200
               wanted == {i \in DOMAIN before :
                            Wanted(before[i], ListTenant.s, status)}
           IN  /\ response.status = 200
               /\ \A k \in DOMAIN rows :
                    /\ rows[k].id \in DOMAIN before /\ rows[k] = before[rows[k].id]
                    /\ Wanted(rows[k], ListTenant.s, status)
               /\ \A k \in DOMAIN rows : \A m \in DOMAIN rows :
                    k < m => /\ rows[k].createdAt >= rows[m].createdAt
                             /\ rows[k].id # rows[m].id
               /\ Len(rows) = AtMost(Cardinality(wanted), cap)

C8_Witness ==
    /\ IsList /\ Answered
    /\ request.endpoint = "proxy" /\ request.productIdQ = Str(P100)
    /\ request.status = Present("approved")
    /\ Len(response.reviews) = 200
    /\ \E i \in DOMAIN before : before[i].shopDomain # ListTenant.s
    /\ \E i \in DOMAIN before :
          before[i].shopDomain = ListTenant.s /\ before[i].status # "approved"
    /\ \E i \in DOMAIN before :
          before[i].shopDomain = ListTenant.s /\ before[i].productId.digits # P100
    /\ Cardinality({i \in DOMAIN before : Wanted(before[i], ListTenant.s, "approved")})
         > 200

\* the answer to the same list call made with the endpoint's default status
AsDefault ==
    IF request.endpoint = "moderation"
    THEN ModerationLoader(before, [request EXCEPT !.status = Present("pending")]).response
    ELSE ProxyLoader(before, [request EXCEPT !.status = Present("approved")]).response

\* C9: a list call whose status parameter is absent or is not one of pending,
\* approved, trashed is answered as the same call with status=pending
\* (moderation) or status=approved (public GET) is, and never with an error.
C9_UnrecognizedStatusIsDefault ==
    (WellFormedList /\ request.status \notin {Present(status) : status \in ReviewStatus})
    => /\ response.status = AsDefault.status
       /\ response.reviews = AsDefault.reviews
       /\ response.status = 200


----------------------------------------------------------------------------
(* One public call, drawn from many origins, answered on a store that holds
   one approved review of each name a tenant can resolve to *)

UpperShop ==
    <<"C", ".", "M", "y", "S", "H", "O", "P", "I", "F", "Y", ".", "C", "O", "M">>
NoDotShop == <<"x">> \o Tail(DotMyshopifyCom)
LookalikeShop == ShopA \o <<".", "e", "v", "i", "l">>
ShopAPort == ShopA \o <<":", "4", "4", "3">>

WideOrigins ==
    {Origin(hdr, q, xfh, host, urlHost) :
        hdr \in {Null, Str(<<>>), Str(ShopA), Str(ExampleCom)},
        q \in {Null, Str(<<>>), Str(ShopB), Str(LookalikeShop)},
        xfh \in {Null, Str(<<>>), Str(ShopB), Str(UpperShop), Str(ExampleCom),
                 Str(NoDotShop), Str(LookalikeShop), Str(ShopAPort)},
        host \in {Null, Str(ExampleCom), Str(ShopA), Str(UpperShop)},
        urlHost \in {ExampleCom, ShopB}}

\* pre-flight requests to both routes, from every origin and with what a
\* list call or a submission can carry
PreflightRequests ==
    {ProxyListRequest(o, "OPTIONS", Null, Null, Absent, "asc", 0) : o \in WideOrigins}
    \cup {Submission(o, "OPTIONS", UrlEncoded, "urlencoded", "object", Example, "ok", 0) :
            o \in WideOrigins}
    \cup {ProxyListRequest(o, "OPTIONS", pq, Null, st, "desc", fault) :
            o \in {FromHeaderA, FromNowhere},
            pq \in {Null, Str(P100), Str(<<"1", ".", "5">>)},
            st \in {Present("pending"), Present("constructor")},
            fault \in {0, 1}}
    \cup {Submission(o, "OPTIONS", ct, "multipart", "object", b, up, fault) :
            o \in {FromHeaderA, FromNowhere},
            ct \in {Multipart, Json},
            b \in {With(Example, "media", SmallFile), With(Example, "media", TooLargeFile),
                   With(Example, "rating", Str(<<"6">>))},
            up \in {"ok", "throw"},
            fault \in {0, 1}}

ResolveRequests ==
    {ProxyListRequest(o, "GET", Null, Null, Absent, "asc", 0) : o \in WideOrigins}
    \cup {Submission(o, "POST", UrlEncoded, "urlencoded", "object", Example, "ok", 0) :
            o \in WideOrigins}
    \cup PreflightRequests

TenantNames == <<ShopA, ShopB, ExampleCom, UpperShop, LookalikeShop, NoDotShop, ShopAPort>>

ResolveStore ==
    [i \in DOMAIN TenantNames |-> StoredRow(i, TenantNames[i], P100, "approved", 0)]

InitResolve ==
    /\ supabase = TRUE
    /\ \E req \in ResolveRequests : InitAnswering(ResolveStore, req)

SpecResolve == InitResolve /\ [][AnswerPublicList \/ AnswerSubmission]_vars

----------------------------------------------------------------------------
(* Properties of tenant resolution (SpecResolve) *)

\* the forwarded host when non-empty, else the host header when non-empty,
\* else the host of the URL
HostName ==
    IF Truthy(request.xForwardedHost) THEN request.xForwardedHost.s
    ELSE IF Truthy(request.hostHeader) THEN request.hostHeader.s
    ELSE request.urlHost

\* name is some prefix followed by .myshopify.com, letters compared without case
EndsInSuffix(name) ==
    \E cut \in 0..Len(name) :
        /\ Len(name) - cut = Len(DotMyshopifyCom)
        /\ \A k \in 1..Len(DotMyshopifyCom) :
              LowerChar(name[cut + k]) = DotMyshopifyCom[k]

\* <<tenant>>, or <<>> when the request is of no tenant
ExpectedTenant ==
    IF request.hdrShop.t = "str" /\ request.hdrShop.s # <<>> THEN <<request.hdrShop.s>>
    ELSE IF request.qShop.t = "str" /\ request.qShop.s # <<>> THEN <<request.qShop.s>>
    ELSE IF EndsInSuffix(HostName) THEN <<HostName>>
    ELSE <<>>

IsPublicCall ==
    /\ request.endpoint = "proxy"
    /\ \/ request.route = "loader" /\ request.method = "GET"
       \/ request.route = "action" /\ request.method = "POST"

\* C10: the tenant of a public call is the x-shopify-shop-domain header when
\* non-empty, else the shop query parameter when non-empty, else the host name
\* if and only if it ends in .myshopify.com, else none; a call of no tenant is
\* answered 401 without a read or write of the store, and a call of a tenant
\* reads or writes rows of that tenant only.
C10_TenantResolution ==
    (IsPublicCall /\ Answered) =>
        IF ExpectedTenant = <<>>
        THEN /\ getShopFromRequest(request) = Undefined
             /\ response.status = 401
             /\ calls = <<>> /\ reviews = before /\ bucket = {}
        ELSE /\ getShopFromRequest(request) = Str(ExpectedTenant[1])
             /\ response.status = 200
             /\ request.method = "GET" =>
                  /\ \A k \in DOMAIN response.reviews :
                        response.reviews[k].shopDomain = ExpectedTenant[1]
                  /\ Len(response.reviews) =
                        Cardinality({i \in DOMAIN before :
                                        before[i].shopDomain = ExpectedTenant[1]})
             /\ request.method = "POST" =>
                  /\ DOMAIN reviews = DOMAIN before \cup {Len(before) + 1}
                  /\ reviews[Len(before) + 1].shopDomain = ExpectedTenant[1]

C10_Witness ==
    /\ IsPublicCall /\ Answered
    /\ request.method = "POST"
    /\ request.hdrShop = Null /\ request.qShop = Str(<<>>)
    /\ request.xForwardedHost = Str(ExampleCom)
    /\ request.hostHeader = Str(ShopA)
    /\ ExpectedTenant = <<>>
    /\ response.status = 401

----------------------------------------------------------------------------
(* Properties of the media step of one submission (SpecIngest) *)

\* the file a multipart submission carries: <<file>>, or <<>> when it carries
\* none or an empty one
CarriedFile ==
    IF /\ IsSubmission
       /\ "multipart/form-data" \in request.contentType
       /\ request.body.enc = "multipart"
       /\ SubmittedFields["media"].t = "file"
       /\ SubmittedFields["media"].n > 0
    THEN <<SubmittedFields["media"]>>
    ELSE <<>>

\* every check on the fields passes
FieldsValid ==
    /\ TenantAndProductValid
    /\ ~BadRating(SubmittedFields["rating"])
    /\ FirstNameOf(SubmittedFields) # <<>>
    /\ TextOf(SubmittedFields) # <<>>

\* C11: a multipart POST of a resolvable tenant with a media file of more than
\* 20 * 1024 * 1024 bytes is answered 400, nothing is uploaded and no row is
\* created, also when every field is valid; a file of exactly that size, with
\* valid fields and a working storage client, is uploaded and the review made.
C11_OversizeFileRejected ==
    (IsSubmission /\ Answered /\ Truthy(getShopFromRequest(request))
        /\ CarriedFile # <<>>) =>
        /\ CarriedFile[1].n > 20 * 1024 * 1024 =>
              response.status = 400 /\ NothingStoredOrUploaded
        /\ (/\ CarriedFile[1].n = 20 * 1024 * 1024
            /\ FieldsValid /\ supabase
            /\ request.upload = "ok" /\ request.dbFault = 0) =>
              /\ response.status = 200
              /\ bucket # {}
              /\ DOMAIN reviews # DOMAIN before

C11_Witness ==
    /\ IsSubmission /\ Answered
    /\ CarriedFile # <<>> /\ CarriedFile[1].n = 20 * 1024 * 1024 + 1
    /\ FieldsValid /\ supabase
    /\ response.status = 400
    /\ response.text = "File is too large. Please keep it under 20MB."


Called(name) == \E k \in DOMAIN calls : calls[k].op = name

\* the storage client returned an error or threw, the database call threw, or
\* the parse of the body threw
ClientFailed ==
    /\ IsSubmission /\ Answered
    /\ \/ Called("upload") /\ request.upload \in {"error", "throw"}
       \/ Called("create") /\ request.dbFault = 1
       \/ /\ Truthy(getShopFromRequest(request))
          /\ "multipart/form-data" \in request.contentType
          /\ request.body.enc # "multipart"

\* C12: a public submission during which the storage client, the database
\* client or the parse of the body fails is answered 500 with the endpoint's
\* fixed message, and never with text that the failing client produced.
C12_FailuresAreGeneric ==
    ClientFailed =>
        /\ response.status = 500
        /\ response.text = "Failed to submit review"


----------------------------------------------------------------------------
(* One submission in the three encodings (SpecIngest) *)

\* every member of the body is a string, a number or absent: values that each
\* of the three encodings can carry
ScalarFields ==
    \A k \in BodyKeys : SubmittedFields[k].t \in {"str", "num", "undef"}

\* the same members, each number written as the numeric string equal to it
AsStrings(fields) ==
    [k \in BodyKeys |-> IF fields[k].t = "num" THEN Str(NumberToString(fields[k].n))
                        ELSE fields[k]]

\* the request, had its members been sent in another encoding
SentAs(ct, enc) ==
    [request EXCEPT !.contentType = ct,
                    !.body = [enc |-> enc, json |-> "object",
                              fields |-> AsStrings(SubmittedFields)]]

\* what the action answers to req on the store the request found
OutcomeOf(req) ==
    ProxyAction(before, {}, supabase, req, clock, Len(before) + 1, 1)

\* C13: a submission whose members are strings, numbers or absent has the same
\* outcome sent as JSON, as a URL-encoded form and as a multipart form without
\* a file: the same response status and the same store, hence on success a
\* new review with the same columns.
C13_EncodingsAgree ==
    (IsSubmission /\ Answered /\ BodyReadable /\ ScalarFields) =>
        \A other \in {SentAs(Json, "json"), SentAs(UrlEncoded, "urlencoded"),
                      SentAs(Multipart, "multipart")} :
            /\ OutcomeOf(other).response.status = response.status
            /\ OutcomeOf(other).store = reviews
            /\ OutcomeOf(other).bucket = bucket

C13_Witness ==
    /\ IsSubmission /\ Answered /\ BodyReadable /\ ScalarFields
    /\ request.body.enc = "json"
    /\ SubmittedFields["productId"] = Num(200)
    /\ SubmittedFields["product_id"] = Str(P100)
    /\ SubmittedFields["rating"] = Num(3)
    /\ response.status = 200
    /\ Len(reviews) = Len(before) + 1
    /\ reviews[Len(reviews)].productId.digits = P200
    /\ reviews[Len(reviews)].authorName = <<"B">>


----------------------------------------------------------------------------
(* The media URL of a review made by one submission (SpecIngest) *)

\* the review the submission made
Made == reviews[Len(before) + 1]

MadeReview ==
    /\ IsSubmission /\ Answered /\ BodyReadable
    /\ response.status = 200
    /\ DOMAIN reviews = DOMAIN before \cup {Len(before) + 1}

\* the mediaUrl (else media_url) member of the body: a string value, or Null
\* when there is none or it is empty
BodyMediaUrl ==
    LET named == IF Nullish(SubmittedFields["mediaUrl"]) THEN SubmittedFields["media_url"]
                 ELSE SubmittedFields["mediaUrl"]
    IN  IF named.t = "str" /\ named.s # <<>> THEN named
        ELSE IF named.t = "num" THEN Str(NumberToString(named.n))
        ELSE Null

\* C14: the review made from a submission with a non-empty media file has as
\* mediaUrl the public URL of the one object uploaded, never the URL named in
\* the body; without a non-empty file (none, or one of size 0) nothing is
\* uploaded and the mediaUrl is the one named in the body, or null.
C14_UploadedUrlWins ==
    MadeReview =>
        IF CarriedFile # <<>>
        THEN /\ Cardinality(bucket) = 1
             /\ \E path \in bucket : Made.mediaUrl = Str(PublicUrl(path))
             /\ Made.mediaUrl # BodyMediaUrl
        ELSE /\ bucket = {}
             /\ Made.mediaUrl = BodyMediaUrl

C14_Witness ==
    /\ MadeReview
    /\ CarriedFile # <<>>
    /\ BodyMediaUrl = Str(<<"u">>)
    /\ \E path \in bucket : Made.mediaUrl = Str(PublicUrl(path))


----------------------------------------------------------------------------
(* Pre-flight requests (SpecResolve) *)

IsPreflight == request.endpoint = "proxy" /\ request.method = "OPTIONS"

\* C15: an OPTIONS request to either route of the ingestion endpoint is
\* answered 204 with the CORS headers and no body, whether or not a tenant
\* resolves and whatever it carries, without a read or write of the store and
\* without an upload.
C15_PreflightAlways204 ==
    (IsPreflight /\ Answered) =>
        /\ response.status = 204
        /\ response.cors
        /\ response.text = "" /\ response.reviews = <<>> /\ response.review = <<>>
        /\ calls = <<>>
        /\ reviews = before
        /\ bucket = {}

C15_Witness ==
    /\ IsPreflight /\ Answered
    /\ request.route = "action"
    /\ ExpectedTenant = <<>>
    /\ request.body.fields["media"] = SmallFile
    /\ request.dbFault = 1
    /\ response.status = 204


----------------------------------------------------------------------------
(* The repository writes of one moderation call (Spec) *)

\* the repository calls of the last request that write
Writes == SelectSeq(calls, LAMBDA c : c.op \in {"update", "delete", "create"})

\* the ids whose row the last request changed, removed or added
Touched ==
    {i \in DOMAIN before \cup DOMAIN reviews :
        \/ i \notin DOMAIN before
        \/ i \notin DOMAIN reviews
        \/ before[i] # reviews[i]}

\* the call is made by the tenant of the review it names
OnOwnReview ==
    /\ IsModerationCall
    /\ request.session.t = "str"
    /\ request.id \in DOMAIN before
    /\ before[request.id].shopDomain = request.session.s

\* C16: a moderation call on a review of the caller's tenant with an intent
\* other than approve, trash, restore, delete is answered 400 and writes
\* nothing; a call answered with success made exactly one write, an update or
\* a delete of the requested id, and touched no other row; a call answered
\* 401, 400 or 404 made no write.
C16_OneWritePerSuccess ==
    IsModerationCall =>
        /\ (OnOwnReview /\ request.dbFault = 0
              /\ request.intent \notin {"approve", "trash", "restore", "delete"}) =>
                 response.status = 400 /\ Writes = <<>> /\ reviews = before
        /\ response.status = 200 =>
              /\ Len(Writes) = 1
              /\ Writes[1].id = request.id
              /\ Writes[1].op = (IF request.intent = "delete" THEN "delete" ELSE "update")
              /\ Touched \subseteq {request.id}
        /\ response.status \in {401, 400, 404} =>
              Writes = <<>> /\ reviews = before

C16_Witness ==
    /\ OnOwnReview
    /\ request.intent = "publish"
    /\ response.status = 400
    /\ response.text = "Unknown intent"
    /\ calls = <<Op("findUnique", request.id)>>
    /\ \E i \in DOMAIN before : i # request.id


----------------------------------------------------------------------------
(* The order of the checks on one submission (SpecIngest) *)

NoTenant ==
    /\ request.hdrShop.t # "str" \/ request.hdrShop.s = <<>>
    /\ request.qShop.t # "str" \/ request.qShop.s = <<>>
    /\ ~EndsInSuffix(HostName)

\* the product id is missing or is no integer
BadProduct ==
    LET raw == toStr(IF Nullish(SubmittedFields["productId"])
                     THEN SubmittedFields["product_id"]
                     ELSE SubmittedFields["productId"])
    IN  raw = <<>> \/ ~BigInt(raw).ok

BadNameOrText ==
    FirstNameOf(SubmittedFields) = <<>> \/ TextOf(SubmittedFields) = <<>>

Answer(status, texts) == response.status = status /\ response.text \in texts

MediaAnswers ==
    {"Supabase is not configured.", "File is too large. Please keep it under 20MB.",
     "upErr.message"}

\* position of the first call of that name among the calls made; 0 when none
FirstCall(name) ==
    IF Called(name) THEN CHOOSE k \in DOMAIN calls :
                            calls[k].op = name /\ \A j \in 1..(k - 1) : calls[j].op # name
    ELSE 0

\* C17: a submission is answered by the first check it fails, in the order
\* tenant (401), product id (400), rating (400), name and text (400); the
\* media checks and the upload happen only when all four pass, and the create
\* only after the upload of a carried file.
C17_ChecksInOrder ==
    (IsSubmission /\ Answered /\ BodyReadable) =>
        /\ IF NoTenant THEN Answer(401, {MissingShopPost})
           ELSE IF BadProduct
                THEN Answer(400, {"product_id is required", "Invalid product_id"})
           ELSE IF BadRating(SubmittedFields["rating"])
                THEN Answer(400, {"rating must be between 1 and 5"})
           ELSE IF BadNameOrText
                THEN Answer(400, {"name and review body are required"})
           ELSE response.text \notin
                   {MissingShopPost, "product_id is required", "Invalid product_id",
                    "rating must be between 1 and 5", "name and review body are required"}
        /\ (NoTenant \/ BadProduct \/ BadRating(SubmittedFields["rating"]) \/ BadNameOrText)
              => /\ response.text \notin MediaAnswers
                 /\ calls = <<>> /\ reviews = before /\ bucket = {}
        /\ Called("create") =>
              IF CarriedFile # <<>> THEN 0 < FirstCall("upload")
                                         /\ FirstCall("upload") < FirstCall("create")
              ELSE ~Called("upload")

C17_Witness ==
    /\ IsSubmission /\ Answered /\ BodyReadable
    /\ ~NoTenant
    /\ BadProduct
    /\ BadRating(SubmittedFields["rating"])
    /\ BadNameOrText
    /\ CarriedFile # <<>> /\ CarriedFile[1].n > MaxBytes
    /\ response.text = "Invalid product_id"


----------------------------------------------------------------------------
(* A create that fails after the upload (SpecIngest) *)

\* the file passes the media checks and the storage client stores it
UploadSucceeds ==
    /\ FieldsValid
    /\ CarriedFile # <<>> /\ CarriedFile[1].n <= 20 * 1024 * 1024
    /\ supabase
    /\ request.upload = "ok"

\* the database fails, or rejects the row for a rating that is no integer
CreateFails ==
    \/ request.dbFault = 1
    \/ ~IsInteger(Number(toStr(SubmittedFields["rating"])))

\* C18: when the upload of a submission succeeds and the create then fails,
\* the answer is 500, no review is added, the uploaded object stays in the
\* bucket, and the calls made are one upload followed by one create: nothing
\* is retried and nothing is removed.
C18_OrphanAfterFailedCreate ==
    (UploadSucceeds /\ CreateFails) =>
        /\ response.status = 500
        /\ response.text = "Failed to submit review"
        /\ reviews = before
        /\ Cardinality(bucket) = 1
        /\ Len(calls) = 2
        /\ calls[1].op = "upload" /\ calls[2].op = "create"

C18_Witness ==
    /\ UploadSucceeds
    /\ request.dbFault = 1
    /\ response.status = 500
    /\ reviews = before
    /\ \E path \in bucket : TRUE


----------------------------------------------------------------------------
(* Two moderation calls running concurrently on one review *)

Callers == 1..2

\* the review both calls name, stored with another review of the tenant
Contested == 1

RaceStores ==
    {<<StoredRow(Contested, ShopA, P100, st, 0), StoredRow(2, ShopA, P200, "approved", 0)>> :
        st \in ReviewStatus}

\* the calls of the owning tenant on the contested review
RaceRequests ==
    {ModerationRequest(Str(ShopA), Contested, intent, 0) :
        intent \in Intents \cup {"publish"}}

\* a call that has not yet reached the repository
Racing(req) ==
    [req |-> req, pc |-> "load", review |-> <<>>, response |-> Unanswered, rank |-> 0]

InitRace ==
    \E store \in RaceStores, a \in RaceRequests, b \in RaceRequests :
        /\ reviews = store
        /\ nextId = Len(store) + 1
        /\ clock = LastWrite(store)
        /\ bucket = {}
        /\ nextObj = 1
        /\ supabase = TRUE
        /\ request = NoRequest
        /\ response = Unanswered
        /\ calls = <<>>
        /\ before = store
        /\ progress = [i \in DOMAIN store |-> 0]
        /\ inflight = <<Racing(a), Racing(b)>>

\* lines 97-117: the session, the id, findUnique and the ownership check;
\* an Unanswered response means the call goes on to its write
LoadAndCheck(store, req) ==
    LET shop == req.session
        found == FindUnique(store, req.id)
        load == <<Op("findUnique", req.id)>>
    IN  IF ~Truthy(shop) THEN Outcome(<<>>, PlainResponse(401, "Unauthorized"), <<>>)
        ELSE IF req.id = 0
             THEN Outcome(<<>>, PlainResponse(400, "Missing review id"), <<>>)
        ELSE IF req.dbFault = 1 THEN Outcome(<<>>, Thrown, load)
        ELSE IF found = <<>> \/ found[1].shopDomain # shop.s
             THEN Outcome(<<>>, PlainResponse(404, "Not found"), load)
        ELSE Outcome(found, Unanswered, load)

\* WriteOf, were a status written to a review that is gone by storing the
\* loaded review again
WriteOfUpsert(store, req, loaded, now) ==
    LET write == IF req.intent = "delete" THEN Op("delete", req.id)
                 ELSE Op("update", req.id)
    IN  IF req.intent \notin Intents
        THEN Outcome(store, PlainResponse(400, "Unknown intent"), <<>>)
        ELSE IF req.dbFault = 2 THEN Outcome(store, Thrown, <<write>>)
        ELSE IF req.id \notin DOMAIN store /\ req.intent = "delete"
             THEN Outcome(store, Thrown, <<write>>)
        ELSE IF req.id \notin DOMAIN store
             THEN Outcome(UpdateStatus(CreateRow(store, loaded[1]), req.id,
                                       TargetStatus(req.intent), now),
                          PlainResponse(200, "ok"), <<write>>)
        ELSE Outcome(ApplyIntent(store, req.id, req.intent, now),
                     PlainResponse(200, "ok"), <<write>>)

\* lines 119-146: the update or delete of the intent, on the store as it is
\* by then; update and delete throw when no row has the id
WriteOf(store, req, loaded, now) ==
    LET write == IF req.intent = "delete" THEN Op("delete", req.id)
                 ELSE Op("update", req.id)
    IN  IF req.intent \notin Intents
        THEN Outcome(store, PlainResponse(400, "Unknown intent"), <<>>)
        ELSE IF req.dbFault = 2 \/ req.id \notin DOMAIN store
             THEN Outcome(store, Thrown, <<write>>)
        ELSE Outcome(ApplyIntent(store, req.id, req.intent, now),
                     PlainResponse(200, "ok"), <<write>>)

Commits == Cardinality({c \in DOMAIN inflight : inflight[c].rank > 0})

\* one call runs up to the answer of findUnique
Load(c) ==
    LET call == inflight[c]
        out == LoadAndCheck(reviews, call.req)
    IN  /\ call.pc = "load"
        /\ inflight' = [inflight EXCEPT
                          ![c].pc = IF out.response = Unanswered THEN "write" ELSE "done",
                          ![c].review = out.store,
                          ![c].response = out.response]
        /\ request' = call.req
        /\ response' = out.response
        /\ calls' = calls \o out.ops
        /\ UNCHANGED <<reviews, nextId, clock, bucket, nextObj, supabase, before,
                       progress>>

\* one call runs from there to its response
Write(c) ==
    \E now \in Now :
        LET call == inflight[c]
            out == WriteOf(reviews, call.req, call.review, now)
        IN  /\ call.pc = "write"
            /\ inflight' = [inflight EXCEPT
                              ![c].pc = "done",
                              ![c].response = out.response,
                              ![c].rank = IF out.response.status = 200 THEN Commits + 1
                                          ELSE 0]
            /\ reviews' = out.store
            /\ clock' = IF out.store # reviews THEN now ELSE clock
            /\ request' = call.req
            /\ response' = out.response
            /\ calls' = calls \o out.ops
            /\ UNCHANGED <<nextId, bucket, nextObj, supabase, before, progress>>

LoadStep == \E c \in Callers : Load(c)
WriteStep == \E c \in Callers : Write(c)

SpecRace == InitRace /\ [][LoadStep \/ WriteStep]_vars


----------------------------------------------------------------------------
(* Properties of two concurrent moderation calls (SpecRace) *)

RaceOver ==
    /\ inflight # <<>>
    /\ \A c \in Callers : inflight[c].pc = "done"

\* the store after the two calls, run one after the other at some two times
SerialFinals ==
    {ModerationAction(ModerationAction(before, inflight[first].req, t1).store,
                      inflight[3 - first].req, t2).store :
        first \in Callers, t1 \in 0..MaxClock, t2 \in 0..MaxClock}

StatusIntents == {"approve", "trash", "restore"}

\* the call whose write was the last to commit
LastCommitted ==
    CHOOSE c \in Callers :
        /\ inflight[c].rank > 0
        /\ \A d \in Callers : inflight[d].rank <= inflight[c].rank

DeleteSucceeded ==
    \E c \in DOMAIN inflight :
        /\ inflight[c].req.intent = "delete"
        /\ inflight[c].response.status = 200

\* C19: two calls of the owning tenant on one review, their loads and writes
\* interleaved in any way, leave the store as one of the two serial orders
\* would; with two status intents the review ends in the status of the write
\* committed last, one of pending, approved and trashed; once a delete has
\* succeeded the review is absent and no later write brings it back.
C19_RaceIsSerializable ==
    /\ DeleteSucceeded => Contested \notin DOMAIN reviews
    /\ RaceOver =>
          /\ reviews \in SerialFinals
          /\ (\A c \in Callers : inflight[c].req.intent \in StatusIntents) =>
                /\ Contested \in DOMAIN reviews
                /\ reviews[Contested].status \in {"pending", "approved", "trashed"}
                /\ reviews[Contested].status =
                      (CASE inflight[LastCommitted].req.intent = "approve" -> "approved"
                         [] inflight[LastCommitted].req.intent = "trash" -> "trashed"
                         [] inflight[LastCommitted].req.intent = "restore" -> "pending")

\* both calls loaded the review, then the delete committed, then the update ran
C19_Witness ==
    /\ RaceOver
    /\ Len(calls) = 4
    /\ calls[1].op = "findUnique" /\ calls[2].op = "findUnique"
    /\ calls[3].op = "delete" /\ calls[4].op = "update"
    /\ DeleteSucceeded
    /\ Contested \notin DOMAIN reviews


----------------------------------------------------------------------------
(* What a successful moderation call leaves alone (Spec) *)

ModerationSucceeded == IsModerationCall /\ response.status = 200

\* a row with the two columns a status update writes blanked
ApartFromStatus(row) == [row EXCEPT !.status = "", !.updatedAt = 0]

\* C20: a successful approve, trash or restore changes nothing but the status
\* and updatedAt of the review it names: every other column of that review,
\* createdAt among them, and every other review stay as they were, and none is
\* removed; a successful delete removes the review it names and changes no
\* other review.
C20_OnlyTheTargetChanges ==
    ModerationSucceeded =>
        /\ request.id \in DOMAIN before
        /\ \A i \in DOMAIN before \ {request.id} :
              i \in DOMAIN reviews /\ reviews[i] = before[i]
        /\ request.intent \in StatusIntents =>
              /\ DOMAIN reviews = DOMAIN before
              /\ ApartFromStatus(reviews[request.id]) = ApartFromStatus(before[request.id])
              /\ \A col \in {"id", "shopDomain", "productId", "productHandle", "rating",
                             "title", "body", "authorName", "authorLastName",
                             "authorEmail", "mediaUrl", "createdAt"} :
                    reviews[request.id][col] = before[request.id][col]
        /\ request.intent = "delete" => DOMAIN reviews = DOMAIN before \ {request.id}

\* a review trashed some time after it was created, beside another review
C20_Witness ==
    /\ ModerationSucceeded
    /\ request.intent = "trash"
    /\ Cardinality(DOMAIN before) = 2
    /\ reviews[request.id].status # before[request.id].status
    /\ reviews[request.id].updatedAt > reviews[request.id].createdAt


====
